---- MODULE Spec2Model ----
(***************************************************************************)
(* TorchSWE: the ghost-cell boundary-condition setup of torchswe/bcs and   *)
(* the right-hand-side orchestrator prepare_rhs of torchswe/fvm.py and     *)
(* torchswe/core/fvm.py, as state machines.                                *)
(*                                                                         *)
(* Conventions.  Python's 0-based component index c is kept; a tuple       *)
(* bc.types is the TLA+ sequence whose element c+1 is types[c].  Floating  *)
(* point numbers are modelled as exact extended rationals <<n, d>> (see    *)
(* the arithmetic section); rounding and signed zeros are outside the      *)
(* model.                                                                  *)
(***************************************************************************)
EXTENDS Integers, Sequences, FiniteSets, TLC

VARIABLES
    \* ---- boundary-condition subsystem (torchswe/bcs/__init__.py) ----
    bcs,            \* config.bc / the BCConfig: per orientation, types and values
    vectorize_bc,   \* config.params.vectorize_bc
    backend,        \* which factory modules the import block selected
    entry,          \* the setup entry point the driver uses
    bc_pc,          \* "start", "ready" (an updater was returned) or "raised"
    error,          \* the exception that ended the setup ("" when none)
    funcs,          \* updater.funcs: the registered ghost-cell updates, in order
    printed,        \* number of "ERROR: Unsupported boundary condition." lines printed
    ghost,          \* ghost margin of each States object, per orientation and component
    writes,         \* writes into each ghost margin made by the latest updater call
    soln_arg,       \* the States object passed to the latest updater call (0: none yet)
    ret,            \* what that call returned (0: none yet)
    \* ---- prepare_rhs (torchswe/fvm.py, torchswe/core/fvm.py) ----
    impl,           \* which module's prepare_rhs the driver imports: "fvm" or "core"
    allow_async,    \* config.params.allow_async
    nan_to_num_ok,  \* nplike.nan_to_num takes the four arguments (FALSE: TypeError)
    dx, dy,         \* cell sizes of states.domain
    cfg_dt,         \* runtime.dt / config.temporal.dt
    sources,        \* runtime.sources
    stiff_sources,  \* runtime.stiff_sources
    pc,             \* the statement prepare_rhs executes next ("idle": not in a call)
    k,              \* position of the running for loop in its list
    trace,          \* the stages the current (or latest) call has executed
    face_a,         \* states.face.{x,y}.{plus,minus}.a
    cf,             \* states.face.{x,y}.cf (H in core/fvm.py)
    s,              \* states.s (S in core/fvm.py)
    ss,             \* states.ss, the stiff accumulators
    max_dt,         \* the local max_dt, returned at the end
    evaluated,      \* a call has completed on the current cell values
    s_prev          \* states.s when the previous call returned

bcvars == <<bcs, vectorize_bc, backend, entry, bc_pc, error, funcs, printed,
            ghost, writes, soln_arg, ret>>

rhsvars == <<impl, allow_async, nan_to_num_ok, dx, dy, cfg_dt, sources, stiff_sources,
             pc, k, trace, face_a, cf, s, ss, max_dt, evaluated, s_prev>>

vars == <<bcvars, rhsvars>>

(***************************************************************************)
(* Boundary conditions: configuration                                      *)
(***************************************************************************)

\* orientations = ["west", "east", "south", "north"], in this order.
orientations == <<"west", "east", "south", "north">>

Orientations == {orientations[i] : i \in 1..Len(orientations)}

\* The component indices enumerate(zip(bc.types, bc.values)) yields: w, hu, hv.
Components == {0, 1, 2}

\* The five policies of the BoundaryConfig.
RecognizedPolicies == {"outflow", "extrap", "const", "inflow", "periodic"}

\* The policy strings a configuration may hold: the recognized ones and one
\* string that is none of them.
PolicyStrings == RecognizedPolicies \cup {"bogus"}

\* The States objects of a run: object 1 is the one handed to the setup,
\* object 2 is a different object (a copy the time integrator works on).
StatesObjs == {1, 2}

SetupStates == 1

Backends == {"cupy", "cunumeric", "cython"}

Entries == {"setup_bc", "get_ghost_cell_updaters"}

\* The names the import block binds for each backend selection.
ImportedFactories(b) ==
    IF b = "cunumeric" THEN {"extrap", "const"}
    ELSE {"outflow", "extrap", "const", "inflow"}

Uniform(t, v) == [types |-> <<t, t, t>>, values |-> <<v, v, v>>]

\* The per-edge settings the configurations are drawn from: every recognized
\* policy on all three components, one policy with differing values, and
\* mixed policies with and without an unrecognized string.
EdgeSettings ==
    {Uniform(t, 1) : t \in RecognizedPolicies}
    \cup {[types |-> <<"const", "const", "const">>, values |-> <<1, 2, 2>>],
          [types |-> <<"outflow", "extrap", "const">>, values |-> <<1, 1, 1>>],
          [types |-> <<"extrap", "bogus", "const">>, values |-> <<1, 1, 1>>]}

\* len(set(xs)) == 1 for a three-element tuple.
AllSame(xs) == Cardinality({xs[i] : i \in 1..Len(xs)}) = 1

(***************************************************************************)
(* Boundary conditions: the factories' closures                            *)
(***************************************************************************)

\* What a factory call returns: a closure over the orientation, the
\* component(s), the States object given to the factory and the value.
\* outflow and extrap take no value (bcv is 0 in their closures).
Func(kind, ornt, components, states, bcv) ==
    [kind |-> kind, ornt |-> ornt, components |-> components,
     states |-> states, bcv |-> bcv]

linear_extrap_bc_factory(ornt, components, states) ==
    Func("extrap", ornt, components, states, 0)

const_val_bc_factory(ornt, components, states, bcv) ==
    Func("const", ornt, components, states, bcv)

outflow_bc_factory(ornt, components, states) ==
    Func("outflow", ornt, components, states, 0)

inflow_bc_factory(ornt, components, states, bcv) ==
    Func("inflow", ornt, components, states, bcv)

\* The components a closure writes: components = -1 means all of them.
Targets(f) == IF f.components = -1 THEN Components ELSE {f.components}

\* The content a policy prescribes for a ghost margin, as a symbolic value:
\* the policy and, for const and inflow, the configured value.
Prescribed(kind, bcv) ==
    IF kind \in {"const", "inflow"} THEN <<kind, bcv>> ELSE <<kind, 0>>

Untouched == <<"untouched", 0>>

\* func(): the closure writes the ghost margin of ITS States object.
ApplyFunc(g, f) ==
    [g EXCEPT ![f.states][f.ornt] =
        [c \in Components |->
            IF c \in Targets(f) THEN Prescribed(f.kind, f.bcv) ELSE @[c]]]

CountFunc(w, f) ==
    [w EXCEPT ![f.states][f.ornt] =
        [c \in Components |-> IF c \in Targets(f) THEN @[c] + 1 ELSE @[c]]]

RECURSIVE ApplyAll(_, _)
ApplyAll(g, fs) ==
    IF fs = <<>> THEN g ELSE ApplyAll(ApplyFunc(g, Head(fs)), Tail(fs))

RECURSIVE CountAll(_, _)
CountAll(w, fs) ==
    IF fs = <<>> THEN w ELSE CountAll(CountFunc(w, Head(fs)), Tail(fs))

NoWrites == [st \in StatesObjs |-> [o \in Orientations |-> [c \in Components |-> 0]]]

(***************************************************************************)
(* init_bc / setup_bc                                                      *)
(***************************************************************************)

\* bc_helper: what one call appends to funcs.
bc_helper(ornt, bctp, bcv, components, states) ==
    IF bctp = "extrap" THEN <<linear_extrap_bc_factory(ornt, components, states)>>
    ELSE IF bctp = "const" THEN <<const_val_bc_factory(ornt, components, states, bcv)>>
    ELSE <<>>

\* bc_helper: the lines one call prints.
bc_helper_prints(bctp) == IF bctp \in {"extrap", "const"} THEN 0 ELSE 1

\* A variant of VectorizeEdge that forgets to compare the values.
VectorizeEdge_TypesOnly(vec, bc) == vec /\ AllSame(bc.types)

\* The test that lets init_bc register one update for a whole edge.
VectorizeEdge(vec, bc) == vec /\ AllSame(bc.types) /\ AllSame(bc.values)

RECURSIVE init_bc_components(_, _, _, _)
init_bc_components(ornt, bc, states, i) ==
    IF i > Len(bc.types) THEN <<>>
    ELSE bc_helper(ornt, bc.types[i], bc.values[i], i - 1, states)
         \o init_bc_components(ornt, bc, states, i + 1)

\* One iteration of init_bc's loop over the orientations.
init_bc_edge(ornt, bc, vec, states) ==
    IF VectorizeEdge(vec, bc)
    THEN bc_helper(ornt, bc.types[1], bc.values[1], -1, states)
    ELSE init_bc_components(ornt, bc, states, 1)

init_bc_edge_prints(bc, vec) ==
    IF VectorizeEdge(vec, bc) THEN bc_helper_prints(bc.types[1])
    ELSE bc_helper_prints(bc.types[1]) + bc_helper_prints(bc.types[2])
         + bc_helper_prints(bc.types[3])

RECURSIVE init_bc_from(_, _, _, _)
init_bc_from(cfg, vec, states, n) ==
    IF n > Len(orientations) THEN <<>>
    ELSE init_bc_edge(orientations[n], cfg[orientations[n]], vec, states)
         \o init_bc_from(cfg, vec, states, n + 1)

\* init_bc: the list it returns.
init_bc(states, cfg, vec) == init_bc_from(cfg, vec, states, 1)

RECURSIVE init_bc_prints_from(_, _, _)
init_bc_prints_from(cfg, vec, n) ==
    IF n > Len(orientations) THEN 0
    ELSE init_bc_edge_prints(cfg[orientations[n]], vec)
         + init_bc_prints_from(cfg, vec, n + 1)

init_bc_prints(cfg, vec) == init_bc_prints_from(cfg, vec, 1)

\* setup_bc(states, topo, config): init_bc, then the updater is returned.
SetupBc ==
    /\ bc_pc = "start"
    /\ entry = "setup_bc"
    /\ funcs' = init_bc(SetupStates, bcs, vectorize_bc)
    /\ printed' = printed + init_bc_prints(bcs, vectorize_bc)
    /\ bc_pc' = "ready"
    /\ UNCHANGED <<bcs, vectorize_bc, backend, entry, error, ghost, writes, soln_arg, ret>>
    /\ UNCHANGED rhsvars

(***************************************************************************)
(* get_ghost_cell_updaters                                                 *)
(***************************************************************************)

\* bcs.check(): the configuration's own validation (torchswe.utils.config),
\* which refuses a policy string that is none of the recognized ones.
BCConfigCheck(cfg) ==
    \A o \in Orientations : \A i \in 1..3 : cfg[o].types[i] \in RecognizedPolicies

Ok(fs) == [err |-> "", funcs |-> fs]

Raise(e) == [err |-> e, funcs |-> <<>>]

\* The if/elif chain of the inner loop for one component.  A branch whose
\* factory name the import block did not bind raises NameError.
ghost_dispatch(ornt, i, bctp, bcv, states, b) ==
    IF bctp \in {"outflow", "extrap", "const", "inflow"}
    THEN IF bctp \notin ImportedFactories(b) THEN Raise("NameError")
         ELSE IF bctp = "outflow" THEN Ok(<<outflow_bc_factory(ornt, i, states)>>)
         ELSE IF bctp = "extrap" THEN Ok(<<linear_extrap_bc_factory(ornt, i, states)>>)
         ELSE IF bctp = "const" THEN Ok(<<const_val_bc_factory(ornt, i, states, bcv)>>)
         ELSE Ok(<<inflow_bc_factory(ornt, i, states, bcv)>>)
    ELSE Raise("ValueError")

RECURSIVE ghost_components(_, _, _, _, _)
ghost_components(ornt, bc, states, b, i) ==
    IF i > Len(bc.types) THEN Ok(<<>>)
    ELSE LET one == ghost_dispatch(ornt, i - 1, bc.types[i], bc.values[i], states, b)
         IN IF one.err # "" THEN one
            ELSE LET rest == ghost_components(ornt, bc, states, b, i + 1)
                 IN IF rest.err # "" THEN rest ELSE Ok(one.funcs \o rest.funcs)

\* A variant of ghost_edge without the special case for periodic edges.
ghost_edge_NoSkip(ornt, bc, states, b) == ghost_components(ornt, bc, states, b, 1)

\* One iteration of the loop over the orientations: a periodic edge is
\* skipped on the policy of its component 0.
ghost_edge(ornt, bc, states, b) ==
    IF bc.types[1] = "periodic" THEN Ok(<<>>)
    ELSE ghost_components(ornt, bc, states, b, 1)

RECURSIVE ghost_from(_, _, _, _)
ghost_from(cfg, states, b, n) ==
    IF n > Len(orientations) THEN Ok(<<>>)
    ELSE LET one == ghost_edge(orientations[n], cfg[orientations[n]], states, b)
         IN IF one.err # "" THEN one
            ELSE LET rest == ghost_from(cfg, states, b, n + 1)
                 IN IF rest.err # "" THEN rest ELSE Ok(one.funcs \o rest.funcs)

\* get_ghost_cell_updaters up to its return: the error raised, or the funcs.
get_ghost_cell_updaters(states, cfg, b) ==
    IF ~BCConfigCheck(cfg) THEN Raise("ValidationError")
    ELSE ghost_from(cfg, states, b, 1)

GetGhostCellUpdaters ==
    /\ bc_pc = "start"
    /\ entry = "get_ghost_cell_updaters"
    /\ LET r == get_ghost_cell_updaters(SetupStates, bcs, backend)
       IN /\ funcs' = r.funcs
          /\ error' = r.err
          /\ bc_pc' = IF r.err = "" THEN "ready" ELSE "raised"
    /\ UNCHANGED <<bcs, vectorize_bc, backend, entry, printed, ghost, writes, soln_arg, ret>>
    /\ UNCHANGED rhsvars

(***************************************************************************)
(* The updater both factories return                                       *)
(***************************************************************************)

\* updater(soln): every registered func is called, with no argument, and
\* soln is returned.
Updater(soln) ==
    /\ bc_pc = "ready"
    /\ ghost' = ApplyAll(ghost, funcs)
    /\ writes' = CountAll(NoWrites, funcs)
    /\ soln_arg' = soln
    /\ ret' = soln
    /\ UNCHANGED <<bcs, vectorize_bc, backend, entry, bc_pc, error, funcs, printed>>
    /\ UNCHANGED rhsvars

CallUpdater == \E soln \in StatesObjs : Updater(soln)

(***************************************************************************)
(* Floating-point values as extended rationals <<n, d>> in lowest terms,   *)
(* d >= 0.  d = 0 encodes the three special values: <<1, 0>> is +inf,      *)
(* <<-1, 0>> is -inf and <<0, 0>> is NaN.                                  *)
(***************************************************************************)

Abs(n) == IF n < 0 THEN -n ELSE n

Sign(n) == IF n > 0 THEN 1 ELSE IF n < 0 THEN -1 ELSE 0

RECURSIVE GCD(_, _)
GCD(a, b) == IF b = 0 THEN a ELSE GCD(b, a % b)

Frac(n, d) ==
    IF d = 0 THEN <<Sign(n), 0>>
    ELSE LET g == GCD(Abs(n), d) IN <<n \div g, d \div g>>

FromInt(n) == <<n, 1>>

Inf == <<1, 0>>

NaN == <<0, 0>>

IsNaN(x) == x = NaN

IsFinite(x) == x[2] # 0

\* a / b under errstate(divide="ignore"): x/0 is +-inf, 0/0 is NaN.
FDiv(a, b) ==
    IF IsNaN(a) \/ IsNaN(b) THEN NaN
    ELSE IF b[1] = 0 /\ b[2] # 0 THEN Frac(a[1], 0)
    ELSE Frac(a[1] * b[2] * Sign(b[1]), a[2] * Abs(b[1]))

FMul(a, b) == IF IsNaN(a) \/ IsNaN(b) THEN NaN ELSE Frac(a[1] * b[1], a[2] * b[2])

FAdd(a, b) ==
    IF IsNaN(a) \/ IsNaN(b) THEN NaN
    ELSE IF a[2] = 0 /\ b[2] = 0 THEN (IF a = b THEN a ELSE NaN)
    ELSE Frac(a[1] * b[2] + b[1] * a[2], a[2] * b[2])

\* a < b; every comparison with NaN is false.
FLess(a, b) ==
    IF IsNaN(a) \/ IsNaN(b) THEN FALSE
    ELSE IF a[2] = 0 /\ b[2] = 0 THEN a[1] < b[1]
    ELSE a[1] * b[2] < b[1] * a[2]

\* Python's builtin min(a, b): b when b < a, else a.
PyMin(a, b) == IF FLess(b, a) THEN b ELSE a

\* A variant of NpMinimum that keeps the larger value.
NpMinimum_Larger(a, b) == IF IsNaN(a) \/ IsNaN(b) THEN NaN ELSE IF FLess(a, b) THEN b ELSE a

\* nplike.minimum(a, b): NaN when either is NaN.
NpMinimum(a, b) == IF IsNaN(a) \/ IsNaN(b) THEN NaN ELSE IF FLess(b, a) THEN b ELSE a

\* nplike.nan_to_num(x, False, nan, posinf) on a value that is not -inf.
NanToNum(x, nan, posinf) == IF IsNaN(x) THEN nan ELSE IF x = Inf THEN posinf ELSE x

(***************************************************************************)
(* Arrays.  The grid of the model has one cell: an axis has two faces, so  *)
(* a face array is a sequence of length 2 along its normal axis and a      *)
(* cell array a sequence of length 1.  The leading component axis of cf    *)
(* and s, over which every operation of prepare_rhs is elementwise, is     *)
(* left out.                                                               *)
(***************************************************************************)

Faces == 1..2

Cells == 1..1

\* a[..., :-1]
Front(a) == SubSeq(a, 1, Len(a) - 1)

\* a[..., 1:]
Back(a) == SubSeq(a, 2, Len(a))

Minus(a, b) == [i \in 1..Len(a) |-> a[i] - b[i]]

Negate(a) == [i \in 1..Len(a) |-> -a[i]]

\* nplike.maximum(a, b), elementwise.
Maximum(a, b) == [i \in 1..Len(a) |-> IF a[i] >= b[i] THEN a[i] ELSE b[i]]

\* nplike.max(a).
RECURSIVE ArrayMax(_)
ArrayMax(a) ==
    IF Len(a) = 1 THEN a[1]
    ELSE LET m == ArrayMax(Tail(a)) IN IF a[1] >= m THEN a[1] ELSE m

ConstArray(v) == [i \in Faces |-> v]

(***************************************************************************)
(* prepare_rhs                                                             *)
(***************************************************************************)

\* Bounds of the inputs.
MaxSpeed == 1

MaxFlux == 1

\* The cell sizes and the configured time steps the runs draw from.
Deltas == {1, 2}

DtChoices == {1, 3}

SourceIds == {1, 2}

Event(name, id) == <<name, id>>

Log(name, id) == trace' = Append(trace, Event(name, id))

\* What the source term `id` adds to S, and the stiff term to SS.
SourceTerm(id) == id

StiffTerm(id) == 10 * id

\* The driver calls prepare_rhs; `again` says whether it evaluates a second
\* time on the same State without changing the cell values in between.
Call(again) ==
    /\ pc = "idle"
    /\ again \/ ~evaluated
    /\ pc' = "reconstruct"
    /\ trace' = <<>>
    /\ UNCHANGED <<impl, allow_async, nan_to_num_ok, dx, dy, cfg_dt, sources, stiff_sources,
                   k, face_a, cf, s, ss, max_dt, evaluated, s_prev>>
    /\ UNCHANGED bcvars

\* states = _reconstruct(states, runtime, config).  The reconstructed face
\* values are read by the kernels only and carry no state here.
Reconstruct ==
    /\ pc = "reconstruct"
    /\ Log("reconstruct", 0)
    /\ pc' = "local_speed"
    /\ UNCHANGED <<impl, allow_async, nan_to_num_ok, dx, dy, cfg_dt, sources, stiff_sources,
                   k, face_a, cf, s, ss, max_dt, evaluated, s_prev>>
    /\ UNCHANGED bcvars

\* states = _get_local_speed(states): the kernel writes the one-sided speeds,
\* a_plus >= 0 and a_minus <= 0, with magnitudes in `mags`.  The kernel is a
\* function of the cell values: evaluated again on unchanged cells it writes
\* the same speeds.
GetLocalSpeed(mags) ==
    /\ pc = "local_speed"
    /\ IF evaluated THEN face_a' = face_a
       ELSE \E xp \in [Faces -> mags], xm \in [Faces -> mags],
               yp \in [Faces -> mags], ym \in [Faces -> mags] :
               face_a' = [x |-> [plus |-> xp, minus |-> Negate(xm)],
                          y |-> [plus |-> yp, minus |-> Negate(ym)]]
    /\ Log("local_speed", 0)
    /\ pc' = "discontinuous_flux"
    /\ UNCHANGED <<impl, allow_async, nan_to_num_ok, dx, dy, cfg_dt, sources, stiff_sources,
                   k, cf, s, ss, max_dt, evaluated, s_prev>>
    /\ UNCHANGED bcvars

\* states = _get_discontinuous_flux(states).
GetDiscontinuousFlux ==
    /\ pc = "discontinuous_flux"
    /\ Log("discontinuous_flux", 0)
    /\ pc' = "central_scheme"
    /\ UNCHANGED <<impl, allow_async, nan_to_num_ok, dx, dy, cfg_dt, sources, stiff_sources,
                   k, face_a, cf, s, ss, max_dt, evaluated, s_prev>>
    /\ UNCHANGED bcvars

\* states = _central_scheme(states): the kernel writes the common flux of each
\* face, with values in `fluxes`; again a function of the cell values.
CentralScheme(fluxes) ==
    /\ pc = "central_scheme"
    /\ IF evaluated THEN cf' = cf
       ELSE \E hx \in [Faces -> fluxes], hy \in [Faces -> fluxes] : cf' = [x |-> hx, y |-> hy]
    /\ Log("central_scheme", 0)
    /\ pc' = "divergence"
    /\ UNCHANGED <<impl, allow_async, nan_to_num_ok, dx, dy, cfg_dt, sources, stiff_sources,
                   k, face_a, s, ss, max_dt, evaluated, s_prev>>
    /\ UNCHANGED bcvars

\* A variant of AfterSources that never enters the stiff-source loop.
AfterSources_SkipStiff == "max_dt"

\* Where the control goes when the loop over runtime.sources ends: only
\* torchswe/fvm.py has the loop over runtime.stiff_sources.
AfterSources == IF impl = "fvm" /\ stiff_sources # <<>> THEN "stiff_sources" ELSE "max_dt"

AfterDivergence == IF sources # <<>> THEN "sources" ELSE AfterSources

\* (cf_x[:, :, :-1] - cf_x[:, :, 1:]) / dx + (cf_y[:, :-1, :] - cf_y[:, 1:, :]) / dy
FluxDivergence(h, ddx, ddy) ==
    LET xd == Minus(Front(h.x), Back(h.x))
        yd == Minus(Front(h.y), Back(h.y))
    IN [i \in Cells |-> FAdd(FDiv(FromInt(xd[i]), FromInt(ddx)),
                             FDiv(FromInt(yd[i]), FromInt(ddy)))]

\* A variant of AssignS that accumulates into states.s (+= for =).
AssignS_Accumulate(old, h, ddx, ddy) ==
    [i \in Cells |-> FAdd(old[i], FluxDivergence(h, ddx, ddy)[i])]

\* The value the statement `states.s = ...` leaves in states.s.
AssignS(old, h, ddx, ddy) == FluxDivergence(h, ddx, ddy)

\* states.s = (...) / dx + (...) / dy
Divergence ==
    /\ pc = "divergence"
    /\ s' = AssignS(s, cf, dx, dy)
    /\ Log("divergence", 0)
    /\ pc' = AfterDivergence
    /\ k' = 1
    /\ UNCHANGED <<impl, allow_async, nan_to_num_ok, dx, dy, cfg_dt, sources, stiff_sources,
                   face_a, cf, ss, max_dt, evaluated, s_prev>>
    /\ UNCHANGED bcvars

\* One iteration of `for func in runtime.sources`: the source adds its term
\* to states.s in place.
Source ==
    /\ pc = "sources"
    /\ k <= Len(sources)
    /\ s' = [i \in Cells |-> FAdd(s[i], FromInt(SourceTerm(sources[k])))]
    /\ Log("source", sources[k])
    /\ IF k < Len(sources) THEN k' = k + 1 /\ pc' = pc
       ELSE k' = 1 /\ pc' = AfterSources
    /\ UNCHANGED <<impl, allow_async, nan_to_num_ok, dx, dy, cfg_dt, sources, stiff_sources,
                   face_a, cf, ss, max_dt, evaluated, s_prev>>
    /\ UNCHANGED bcvars

\* One iteration of `for func in runtime.stiff_sources` (torchswe/fvm.py):
\* the stiff source resets its accumulator and adds its term.
StiffSource ==
    /\ pc = "stiff_sources"
    /\ k <= Len(stiff_sources)
    /\ ss' = [ss EXCEPT ![stiff_sources[k]] = 0 + StiffTerm(stiff_sources[k])]
    /\ Log("stiff_source", stiff_sources[k])
    /\ IF k < Len(stiff_sources) THEN k' = k + 1 /\ pc' = pc
       ELSE k' = 1 /\ pc' = "max_dt"
    /\ UNCHANGED <<impl, allow_async, nan_to_num_ok, dx, dy, cfg_dt, sources, stiff_sources,
                   face_a, cf, s, max_dt, evaluated, s_prev>>
    /\ UNCHANGED bcvars

\* A variant of MaxSpeedOf that looks at the plus side only.
MaxSpeedOf_PlusOnly(axis) == ArrayMax(axis.plus)

\* nplike.max(nplike.maximum(face.plus.a, -face.minus.a))
MaxSpeedOf(axis) == ArrayMax(Maximum(axis.plus, Negate(axis.minus)))

\* torchswe/core/fvm.py: min(0.25*dx/amax, 0.25*dy/bmax), then the inf is
\* replaced by runtime.dt, by nan_to_num or, when that raises the TypeError,
\* by the comparison with float("inf").
core_max_dt(a, ddx, ddy, dt, ntn_ok) ==
    LET amax == FromInt(MaxSpeedOf(a.x))
        bmax == FromInt(MaxSpeedOf(a.y))
        quarter == Frac(1, 4)
        m == PyMin(FDiv(FMul(quarter, FromInt(ddx)), amax),
                   FDiv(FMul(quarter, FromInt(ddy)), bmax))
    IN IF ntn_ok THEN NanToNum(m, NaN, FromInt(dt))
       ELSE IF m = Inf THEN FromInt(dt) ELSE m

\* torchswe/fvm.py: nplike.minimum(dx/amax, dy/bmax) unless allow_async,
\* config.temporal.dt with it.
fvm_max_dt(a, ddx, ddy, dt, async) ==
    IF ~async
    THEN LET amax == FromInt(MaxSpeedOf(a.x))
             bmax == FromInt(MaxSpeedOf(a.y))
         IN NpMinimum(FDiv(FromInt(ddx), amax), FDiv(FromInt(ddy), bmax))
    ELSE FromInt(dt)

CoreMaxDt ==
    /\ pc = "max_dt"
    /\ impl = "core"
    /\ max_dt' = core_max_dt(face_a, dx, dy, cfg_dt, nan_to_num_ok)
    /\ Log("max_dt", 0)
    /\ pc' = "return"
    /\ UNCHANGED <<impl, allow_async, nan_to_num_ok, dx, dy, cfg_dt, sources, stiff_sources,
                   k, face_a, cf, s, ss, evaluated, s_prev>>
    /\ UNCHANGED bcvars

FvmMaxDt ==
    /\ pc = "max_dt"
    /\ impl = "fvm"
    /\ max_dt' = fvm_max_dt(face_a, dx, dy, cfg_dt, allow_async)
    /\ Log("max_dt", 0)
    /\ pc' = "return"
    /\ UNCHANGED <<impl, allow_async, nan_to_num_ok, dx, dy, cfg_dt, sources, stiff_sources,
                   k, face_a, cf, s, ss, evaluated, s_prev>>
    /\ UNCHANGED bcvars

\* return states, max_dt
Return ==
    /\ pc = "return"
    /\ pc' = "idle"
    /\ evaluated' = TRUE
    /\ s_prev' = s
    /\ UNCHANGED <<impl, allow_async, nan_to_num_ok, dx, dy, cfg_dt, sources, stiff_sources,
                   k, trace, face_a, cf, s, ss, max_dt>>
    /\ UNCHANGED bcvars

\* The boundary-condition subsystem at rest, for the specifications of
\* prepare_rhs.
BCAtRest ==
    /\ bcs = [o \in Orientations |-> Uniform("periodic", 1)]
    /\ entry = "none"
    /\ backend = "cython"
    /\ vectorize_bc = FALSE
    /\ bc_pc = "start"
    /\ error = ""
    /\ funcs = <<>>
    /\ printed = 0
    /\ ghost = [st \in StatesObjs |-> [o \in Orientations |-> [c \in Components |-> Untouched]]]
    /\ writes = NoWrites
    /\ soln_arg = 0
    /\ ret = 0

\* The State as constructed (face arrays zero) with whatever states.s holds,
\* and the run-time context.  runtime.stiff_sources belongs to the context of
\* torchswe/fvm.py; allow_async is read by torchswe/fvm.py only and the
\* nan_to_num signature by torchswe/core/fvm.py only.
InitRhs(sourceLists, stiffLists, dts, sinit) ==
    /\ impl \in {"fvm", "core"}
    /\ allow_async \in (IF impl = "fvm" THEN BOOLEAN ELSE {FALSE})
    /\ nan_to_num_ok \in (IF impl = "core" THEN BOOLEAN ELSE {TRUE})
    /\ dx \in Deltas
    /\ dy \in Deltas
    /\ cfg_dt \in dts
    /\ sources \in sourceLists
    /\ stiff_sources \in (IF impl = "fvm" THEN stiffLists ELSE {<<>>})
    /\ pc = "idle"
    /\ k = 1
    /\ trace = <<>>
    /\ face_a = [x |-> [plus |-> ConstArray(0), minus |-> ConstArray(0)],
                 y |-> [plus |-> ConstArray(0), minus |-> ConstArray(0)]]
    /\ cf = [x |-> ConstArray(0), y |-> ConstArray(0)]
    /\ s \in {[i \in Cells |-> FromInt(v)] : v \in sinit}
    /\ ss = [id \in SourceIds |-> 0]
    /\ max_dt = FromInt(0)
    /\ evaluated = FALSE
    /\ s_prev = [i \in Cells |-> FromInt(0)]
    /\ BCAtRest

RhsAtRest ==
    /\ impl = "fvm"
    /\ allow_async = FALSE
    /\ nan_to_num_ok = TRUE
    /\ dx = 1
    /\ dy = 1
    /\ cfg_dt = 1
    /\ sources = <<>>
    /\ stiff_sources = <<>>
    /\ pc = "idle"
    /\ k = 1
    /\ trace = <<>>
    /\ face_a = [x |-> [plus |-> ConstArray(0), minus |-> ConstArray(0)],
                 y |-> [plus |-> ConstArray(0), minus |-> ConstArray(0)]]
    /\ cf = [x |-> ConstArray(0), y |-> ConstArray(0)]
    /\ s = [i \in Cells |-> FromInt(0)]
    /\ ss = [id \in SourceIds |-> 0]
    /\ max_dt = FromInt(0)
    /\ evaluated = FALSE
    /\ s_prev = [i \in Cells |-> FromInt(0)]

\* The lists a run-time context may hold: the empty list and the two orders
\* of two terms.
TermLists == {<<>>, <<1, 2>>, <<2, 1>>}

\* SpecDt: one evaluation, over every speed array, with one term per list.
InitDt == InitRhs({<<1>>}, {<<2>>}, DtChoices, {0})

NextDt ==
    \/ Call(FALSE)
    \/ Reconstruct
    \/ GetLocalSpeed(0..MaxSpeed)
    \/ GetDiscontinuousFlux
    \/ CentralScheme({0})
    \/ Divergence
    \/ Source
    \/ StiffSource
    \/ CoreMaxDt
    \/ FvmMaxDt
    \/ Return

SpecDt == InitDt /\ [][NextDt]_vars

\* SpecRhs: repeated evaluations on unchanged cells, over every flux array
\* and the lists of the run-time context.
InitRhsFull == InitRhs(TermLists, {<<>>, <<2, 1>>}, {1}, {0, 1})

NextRhs ==
    \/ Call(TRUE)
    \/ Reconstruct
    \/ GetLocalSpeed({MaxSpeed})
    \/ GetDiscontinuousFlux
    \/ CentralScheme(0..MaxFlux)
    \/ Divergence
    \/ Source
    \/ StiffSource
    \/ CoreMaxDt
    \/ FvmMaxDt
    \/ Return

SpecRhs == InitRhsFull /\ [][NextRhs]_vars

\* SpecBC: the setup of the ghost-cell updater and its calls, over the
\* configurations of EdgeSettings.
InitBC ==
    /\ bcs \in [Orientations -> EdgeSettings]
    /\ entry \in Entries
    /\ backend \in Backends
    /\ vectorize_bc \in (IF entry = "setup_bc" THEN BOOLEAN ELSE {FALSE})
    /\ bc_pc = "start"
    /\ error = ""
    /\ funcs = <<>>
    /\ printed = 0
    /\ ghost = [st \in StatesObjs |-> [o \in Orientations |-> [c \in Components |-> Untouched]]]
    /\ writes = NoWrites
    /\ soln_arg = 0
    /\ ret = 0
    /\ RhsAtRest

NextBC == SetupBc \/ GetGhostCellUpdaters \/ CallUpdater

SpecBC == InitBC /\ [][NextBC]_vars

(***************************************************************************)
(* Properties of the boundary-condition subsystem (under SpecBC)           *)
(***************************************************************************)

SetupDone == bc_pc # "start"

UpdaterCalled == ret # 0

TypeAt(o, c) == bcs[o].types[c + 1]

ValueAt(o, c) == bcs[o].values[c + 1]

PeriodicEdge(o) == \A c \in Components : TypeAt(o, c) = "periodic"

EdgeUniform(o) == AllSame(bcs[o].types) /\ AllSame(bcs[o].values)

OnEdge(fs, o) == SelectSeq(fs, LAMBDA f : f.ornt = o)

FreshGhost == [st \in StatesObjs |-> [o \in Orientations |-> [c \in Components |-> Untouched]]]

\* The latest updater call wrote the margin (o, c) exactly once, in one
\* States object, and left `val` there.
WrittenOnce(o, c, val) ==
    \E st \in StatesObjs :
        /\ writes[st][o][c] = 1
        /\ ghost[st][o][c] = val
        /\ \A other \in StatesObjs \ {st} : writes[other][o][c] = 0

\* C1: whenever a setup has run on a configuration that holds, on some edge
\* and component, a policy string that is not a recognized policy, the setup
\* ended with a raised error (it did not return an updater).
C1_UnknownPolicyRaises ==
    (SetupDone /\ \E o \in Orientations, c \in Components :
                      TypeAt(o, c) \notin RecognizedPolicies)
        => bc_pc = "raised"

\* C5: with setup_bc, (a) the setup is accepted whatever vectorize_bc is;
\* (b) on an edge whose components share policy and value, vectorize_bc on
\* registers at most one update, with components = -1, and after the updater
\* ran every ghost margin of that edge holds what the per-component loop
\* (vectorize_bc off) leaves there; (c) on an edge whose components differ in
\* policy or value the registered updates are those of the per-component loop.
C5_VectorizedEqualsLoop ==
    entry = "setup_bc" =>
        /\ bc_pc # "raised"
        /\ bc_pc = "ready" =>
            \A o \in Orientations :
                IF EdgeUniform(o)
                THEN /\ vectorize_bc =>
                            /\ Len(OnEdge(funcs, o)) <= 1
                            /\ \A i \in 1..Len(OnEdge(funcs, o)) :
                                   OnEdge(funcs, o)[i].components = -1
                     /\ UpdaterCalled =>
                            \A st \in StatesObjs, c \in Components :
                                ghost[st][o][c] =
                                    ApplyAll(FreshGhost,
                                             init_bc(SetupStates, bcs, FALSE))[st][o][c]
                ELSE OnEdge(funcs, o) = init_bc_edge(o, bcs[o], FALSE, SetupStates)

\* C5 witness: a vectorized setup_bc updater has run, with a collapsed update
\* on one edge and per-component updates on an edge of differing components.
C5_Witness ==
    /\ entry = "setup_bc" /\ vectorize_bc /\ UpdaterCalled
    /\ \E o \in Orientations :
           EdgeUniform(o) /\ OnEdge(funcs, o) # <<>> /\ OnEdge(funcs, o)[1].components = -1
    /\ \E o \in Orientations : ~EdgeUniform(o) /\ Len(OnEdge(funcs, o)) = 3

\* The policies the if/elif chain of each entry point has a branch for.
Branches(e) ==
    IF e = "setup_bc" THEN {"extrap", "const"}
    ELSE {"outflow", "extrap", "const", "inflow"}

C7_EveryPairCoveredOnce ==
    UpdaterCalled =>
        \A o \in Orientations, c \in Components :
            TypeAt(o, c) \in {"outflow", "extrap", "const", "inflow"}
                => WrittenOnce(o, c, Prescribed(TypeAt(o, c), ValueAt(o, c)))

\* C8: an updater call returns the object it was given, writes the ghost
\* margins of that object, and writes no other States object.
C8_UpdatesTheSolutionPassed ==
    UpdaterCalled =>
        /\ ret = soln_arg
        /\ \A i \in 1..Len(funcs) : \A c \in Targets(funcs[i]) :
               writes[soln_arg][funcs[i].ornt][c] >= 1
        /\ \A st \in StatesObjs \ {soln_arg}, o \in Orientations, c \in Components :
               writes[st][o][c] = 0

(***************************************************************************)
(* Properties of prepare_rhs (under SpecDt and SpecRhs)                    *)
(***************************************************************************)

\* prepare_rhs is about to return states and max_dt.
Returning == pc = "return"

\* The largest of the one-sided speed magnitudes over the faces of an axis.
AxisMax(axis) ==
    CHOOSE m \in 0..(MaxSpeed + 1) :
        /\ \E f \in Faces : m = axis.plus[f] \/ m = -axis.minus[f]
        /\ \A f \in Faces : axis.plus[f] <= m /\ -axis.minus[f] <= m

SpeedX == AxisMax(face_a.x)

SpeedY == AxisMax(face_a.y)

\* x is the finite value num/den (den > 0).
IsQuot(x, num, den) == x[2] > 0 /\ x[1] * den = num * x[2]

\* x is the smaller of n1/d1 and n2/d2.
IsMinOfQuots(x, n1, d1, n2, d2) ==
    /\ IsQuot(x, n1, d1) \/ IsQuot(x, n2, d2)
    /\ x[1] * d1 <= n1 * x[2]
    /\ x[1] * d2 <= n2 * x[2]

Positive(x) == x[1] > 0

\* The reciprocal of the factor each module puts before delta/max|a|.
InvFactor == IF impl = "core" THEN 4 ELSE 1

Async == impl = "fvm" /\ allow_async

\* C2: when every one-sided face speed is zero on both axes, the max_dt
\* prepare_rhs returns is the configured dt.
C2_DegenerateGivesConfiguredDt ==
    (Returning /\ SpeedX = 0 /\ SpeedY = 0) => max_dt = FromInt(cfg_dt)

FromMovingAxes ==
    IF SpeedX > 0 /\ SpeedY > 0
    THEN IsMinOfQuots(max_dt, dx, InvFactor * SpeedX, dy, InvFactor * SpeedY)
    ELSE IF SpeedX > 0 THEN IsQuot(max_dt, dx, InvFactor * SpeedX)
    ELSE IsQuot(max_dt, dy, InvFactor * SpeedY)

RECURSIVE Events(_, _)
Events(name, ids) ==
    IF ids = <<>> THEN <<>> ELSE <<Event(name, Head(ids))>> \o Events(name, Tail(ids))

KernelStages ==
    <<Event("reconstruct", 0), Event("local_speed", 0), Event("discontinuous_flux", 0),
      Event("central_scheme", 0), Event("divergence", 0)>>

\* The order the claim gives, and the order of each module.
ClaimedOrder ==
    KernelStages \o Events("source", sources) \o Events("stiff_source", stiff_sources)
    \o <<Event("max_dt", 0)>>

ModuleOrder ==
    KernelStages \o Events("source", sources)
    \o (IF impl = "fvm" THEN Events("stiff_source", stiff_sources) ELSE <<>>)
    \o <<Event("max_dt", 0)>>

IsPrefix(a, b) == Len(a) <= Len(b) /\ SubSeq(b, 1, Len(a)) = a

\* max_dt is the CFL value of the speeds face_a holds.
DtFromSpeeds == (SpeedX > 0 /\ SpeedY > 0) => FromMovingAxes

RECURSIVE SumTerms(_)
SumTerms(ids) == IF ids = <<>> THEN 0 ELSE SourceTerm(Head(ids)) + SumTerms(Tail(ids))

\* C10: when a call returns, S is (H_west - H_east)/dx + (H_south - H_north)/dy
\* of the central fluxes plus what the explicit sources added, whatever S held
\* before the call; and a further call on the unchanged State leaves S as the
\* previous call left it.
C10_SAssignedNotAccumulated ==
    Returning =>
        /\ \A i \in Cells :
               /\ s[i][2] > 0
               /\ s[i][1] * dx * dy =
                      ( (cf.x[i] - cf.x[i + 1]) * dy + (cf.y[i] - cf.y[i + 1]) * dx
                        + SumTerms(sources) * dx * dy ) * s[i][2]
        /\ evaluated => s = s_prev

\* C10 witness: a second call returns with sources in the list and a nonzero
\* S that differs from the flux divergence alone.
C10_Witness ==
    /\ Returning /\ evaluated
    /\ sources # <<>>
    /\ cf.x[1] # cf.x[2]
    /\ s_prev[1] # FromInt(0)

====
